---- MODULE Spec2Model ----
(***************************************************************************)
(* A model of the wavelet trie (src/src/wavelet_trie/mod.rs) and of the    *)
(* bit vector it is built on (src/src/bit_vec_wrap/mod.rs).                *)
(*                                                                         *)
(* A BitVecWrap is the sequence of its bits (index i of the code is        *)
(* element i+1 here).  An Option is a sequence of length 0 (None) or 1     *)
(* (Some).  A u32 block of the underlying storage is the set of the bit    *)
(* positions 0..31 that are set in it.  An operation that can panic        *)
(* returns a record with a panic field and the state it had reached.       *)
(***************************************************************************)
EXTENDS Integers, Sequences, FiniteSets, TLC

VARIABLES
    trie,       \* the root WaveletTrie node
    seqs,       \* the logical list: every accepted sequence at its index
    okCount,    \* the number of those calls that returned Ok
    last,       \* the last call on the trie: its arguments, result, state before
    origin,     \* "new" (WaveletTrie::new) or "bulk" (from_sequences)
    panicked,   \* a call on the trie has panicked
    bv,         \* a BitVecWrap under test
    bvLog,      \* the last two calls that changed bv since the last read-only call
    bvPanic,    \* a call on bv has panicked
    bvOut       \* the last read-only call on bv, if no call changed bv since

vars == <<trie, seqs, okCount, last, origin, panicked, bv, bvLog, bvPanic, bvOut>>
trieVars == <<trie, seqs, okCount, last, origin, panicked>>
bvVars == <<bv, bvLog, bvPanic, bvOut>>

\* ------------------------------------------------------------------ bounds
MaxLen == 2      \* longest sequence handed to the trie, in bits
MaxOcc == 3      \* most occurrences in the trie
MaxBits == 4     \* longest bit vector under test

\* the block width of the bit_vec storage (u32)
BlockBits == 32

Bit == {FALSE, TRUE}

RECURSIVE BitStrings(_)
\* all bit vectors of at most n bits
BitStrings(n) ==
    IF n = 0 THEN {<<>>}
    ELSE LET shorter == BitStrings(n - 1)
         IN shorter \cup {Append(s, b) : s \in {t \in shorter : Len(t) = n - 1}, b \in Bit}

\* ------------------------------------------------------------ BitVecWrap
bv_new == <<>>

\* a mutation: the vector is filled with ones whatever bit is asked for
from_elem_ones(nbits, bit) == [k \in 1..nbits |-> TRUE]

from_elem(nbits, bit) == [k \in 1..nbits |-> bit]

bv_len(v) == Len(v)

is_empty(v) == Len(v) = 0

\* Option<bool>: None past the end
bv_get(v, i) == IF i < Len(v) THEN <<v[i + 1]>> ELSE <<>>

\* BitVec::set asserts i < len
bv_set(v, i, elem) ==
    IF i < Len(v)
    THEN [bits |-> [v EXCEPT ![i + 1] = elem], panic |-> FALSE]
    ELSE [bits |-> v, panic |-> TRUE]

push(v, elem) == Append(v, elem)

\* the vector without its last bit; an empty vector stays empty (pop gives None)
pop(v) == IF Len(v) = 0 THEN v ELSE SubSeq(v, 1, Len(v) - 1)

copy(v) == [k \in 1..Len(v) |-> v[k]]

RECURSIVE insert_shift(_, _, _)
\* the loop of insert: for index in (i..len).rev(), from index down to i
insert_shift(v, index, i) ==
    IF index < i THEN v
    ELSE LET prev_bit == bv_get(v, index - 1)
             w == IF index > 0 /\ prev_bit # <<>>
                  THEN bv_set(v, index, prev_bit[1]).bits
                  ELSE v
         IN insert_shift(w, index - 1, i)

\* a mutation: the shift loop stops before index i + 1, so the bit at i is lost
bv_insert_noshift(v, i, elem) ==
    LET grown == push(v, FALSE)
    IN bv_set(insert_shift(grown, Len(grown) - 1, i + 2), i, elem)

bv_insert(v, i, elem) ==
    LET grown == push(v, FALSE)
    IN bv_set(insert_shift(grown, Len(grown) - 1, i), i, elem)

RECURSIVE delete_shift(_, _)
\* the loop of delete: for index in (i + 1)..len
delete_shift(v, index) ==
    IF index >= Len(v) THEN v
    ELSE LET next_bit == bv_get(v, index)
             w == IF next_bit # <<>>
                  THEN bv_set(v, index - 1, next_bit[1]).bits
                  ELSE v
         IN delete_shift(w, index + 1)

\* a mutation: the shift starts at i, one index early
bv_delete_early(v, i) ==
    [bits |-> pop(delete_shift(v, IF i > 0 THEN i ELSE i + 1)), panic |-> FALSE]

\* no bounds check: the loop is empty for i >= len and pop still runs
bv_delete(v, i) == [bits |-> pop(delete_shift(v, i + 1)), panic |-> FALSE]

RECURSIVE select_scan(_, _, _, _, _)
\* iter().position(..) of select: count goes up at every bit equal to bit, and
\* the scan stops at the first index where count == occurrence_nr
select_scan(v, bit, occurrence_nr, index, count) ==
    IF index >= Len(v) THEN <<>>
    ELSE LET counted == IF v[index + 1] = bit THEN count + 1 ELSE count
         IN IF counted = occurrence_nr THEN <<index>>
            ELSE select_scan(v, bit, occurrence_nr, index + 1, counted)

\* a mutation: occurrences are counted from zero
select_from_zero(v, bit, occurrence_nr) == select_scan(v, bit, occurrence_nr, 0, -1)

\* the position of the occurrence_nr-th occurrence of bit, counted from one
select(v, bit, occurrence_nr) == select_scan(v, bit, occurrence_nr, 0, 0)

\* the u32 blocks of the storage: block k holds bits 32(k-1) .. 32k-1, and the
\* bits of the last block past the length are zero
blocks(v) ==
    [k \in 1..((Len(v) + BlockBits - 1) \div BlockBits) |->
        LET first == (k - 1) * BlockBits
            used == IF Len(v) - first < BlockBits THEN Len(v) - first ELSE BlockBits
        IN {p \in 0..(used - 1) : v[first + p + 1]}]

RECURSIVE count_ones(_, _)
\* the fold of rank_one: the 1-bits of the first n blocks
count_ones(bl, n) ==
    IF n = 0 THEN 0 ELSE count_ones(bl, n - 1) + Cardinality(bl[n])

\* a mutation: the bit at pos itself is counted too
rank_one_inclusive(v, pos) ==
    IF pos > Len(v) THEN [val |-> 0, panic |-> TRUE]
    ELSE [val |-> Cardinality({k \in 1..Len(v) : k <= pos + 1 /\ v[k]}), panic |-> FALSE]

\* the number of ones in [0 .. pos-1]
rank_one(v, pos) ==
    IF pos > Len(v) THEN [val |-> 0, panic |-> TRUE]
    ELSE LET bl == blocks(v)
             low_pos == pos \div BlockBits
             low_pos_rem == pos % BlockBits
             \* block_iter.take(low_pos): nothing is taken when low_pos = 0
             bit_count == IF low_pos = 0 THEN 0
                          ELSE count_ones(bl, IF low_pos < Len(bl) THEN low_pos ELSE Len(bl))
             start_pos == pos - low_pos_rem
             rest == {bit_pos \in start_pos..(pos - 1) : bv_get(v, bit_pos) = <<TRUE>>}
         IN [val |-> bit_count + Cardinality(rest), panic |-> FALSE]

\* a mutation: the ones are counted, not the zeros
rank_zero_ones(v, pos) == rank_one(v, pos)

rank_zero(v, pos) ==
    IF pos = 0 THEN [val |-> pos, panic |-> FALSE]
    ELSE LET ones == rank_one(v, pos)
         IN [val |-> IF ones.panic THEN 0 ELSE pos - ones.val, panic |-> ones.panic]

bv_rank(v, bit, pos) == IF bit THEN rank_one(v, pos) ELSE rank_zero(v, pos)

\* b2 << remainder >> remainder on a u32: the top remainder bits are cleared
shl_shr(block, remainder) == {p \in block : p + remainder < BlockBits}

\* true if self is a prefix of other
is_prefix_of(self, other) ==
    IF Len(self) > Len(other) THEN FALSE
    ELSE LET sb == blocks(self)
             ob == blocks(other)
             zipped == IF Len(sb) < Len(ob) THEN Len(sb) ELSE Len(ob)
             differ == {k \in 1..zipped : sb[k] # ob[k]}
         IN IF differ = {} THEN TRUE
            ELSE LET block_counter == CHOOSE k \in differ : \A m \in differ : k <= m
                     b1 == sb[block_counter]
                     b2 == ob[block_counter]
                     remainder == BlockBits - (Len(self) % BlockBits)
                 IN IF block_counter # (Len(self) \div BlockBits) + 1 THEN FALSE
                    ELSE IF remainder = BlockBits THEN FALSE
                    ELSE shl_shr(b2, remainder) = b1

RECURSIVE lcp_loop(_, _, _, _)
\* the while loop of longest_common_prefix; done ends it at the first difference
lcp_loop(self, other, index, new_bit_vec) ==
    IF ~(index < Len(self) /\ index < Len(other)) THEN new_bit_vec
    ELSE IF bv_get(self, index) = bv_get(other, index)
         THEN lcp_loop(self, other, index + 1, push(new_bit_vec, bv_get(self, index)[1]))
         ELSE new_bit_vec

\* a mutation: equal vectors go through the loop too and lose their last bit
longest_common_prefix_short(self, other) ==
    IF self = other THEN pop(self) ELSE lcp_loop(self, other, 0, bv_new)

longest_common_prefix(self, other) ==
    IF self = other THEN self ELSE lcp_loop(self, other, 0, bv_new)

\* a mutation: past the end the bit reads as false and nothing panics
different_suffix_lenient(v, len) ==
    LET first_bit == bv_get(v, len)
    IN [bit |-> IF first_bit = <<>> THEN FALSE ELSE first_bit[1],
        suffix |-> SubSeq(v, len + 2, Len(v)), panic |-> FALSE]

\* get(len).unwrap() panics when len is not an index of the vector
different_suffix(v, len) ==
    LET first_bit == bv_get(v, len)
    IN IF first_bit = <<>>
       THEN [bit |-> FALSE, suffix |-> <<>>, panic |-> TRUE]
       ELSE [bit |-> first_bit[1], suffix |-> SubSeq(v, len + 2, Len(v)), panic |-> FALSE]

\* ----------------------------------------------------------- WaveletTrie
Node(prefix, positions, left, right) ==
    [prefix |-> prefix, positions |-> positions, left |-> left, right |-> right]

new == Node(bv_new, bv_new, <<>>, <<>>)

len(self) == bv_len(self.positions)

\* the results of insert: Ok, the five prefix-conflict errors (numbered as in
\* their messages), the two absent-child errors, and a panic
PrefixErrs == {"Err1", "Err2", "Err3", "Err4", "Err5"}
ChildErrs == {"ErrRight", "ErrLeft"}
Errs == PrefixErrs \cup ChildErrs

RECURSIVE fold_lcp(_, _, _)
\* the loop of insert_static that narrows self.prefix over all sequences
fold_lcp(prefix, sequences, k) ==
    IF k > Len(sequences) THEN prefix
    ELSE fold_lcp(longest_common_prefix(prefix, sequences[k]), sequences, k + 1)

RECURSIVE pick(_, _, _)
\* the suffixes, in order, of the peeled sequences whose bit is bit
pick(peeled, bit, k) ==
    IF k > Len(peeled) THEN <<>>
    ELSE IF peeled[k].bit = bit
         THEN <<peeled[k].suffix>> \o pick(peeled, bit, k + 1)
         ELSE pick(peeled, bit, k + 1)

RECURSIVE insert_static(_, _)
insert_static(self, sequences) ==
    IF sequences = <<>> THEN [node |-> self, panic |-> FALSE]
    ELSE LET first_sequence == sequences[1]
             all_equal == \A k \in 1..Len(sequences) : sequences[k] = first_sequence
         IN IF all_equal
            THEN [node |-> Node(first_sequence, from_elem(Len(sequences), FALSE),
                                self.left, self.right),
                  panic |-> FALSE]
            ELSE LET prefix == fold_lcp(first_sequence, sequences, 1)
                     peeled == [k \in 1..Len(sequences) |->
                                   different_suffix(sequences[k], Len(prefix))]
                 IN IF \E k \in 1..Len(sequences) : peeled[k].panic
                    THEN [node |-> self, panic |-> TRUE]
                    ELSE LET positions == self.positions \o
                                          [k \in 1..Len(sequences) |-> peeled[k].bit]
                             left_child == insert_static(new, pick(peeled, FALSE, 1))
                             right_child == insert_static(new, pick(peeled, TRUE, 1))
                         IN [node |-> Node(prefix, positions,
                                           <<left_child.node>>, <<right_child.node>>),
                             panic |-> left_child.panic \/ right_child.panic]

from_sequences(sequences) == insert_static(new, sequences)

\* a mutation: the new leaf is made without its occurrence
split_bare(self, sequence, index) ==
    LET lcp == longest_common_prefix(sequence, self.prefix)
        peel_self == different_suffix(self.prefix, Len(lcp))
        peel_seq == different_suffix(sequence, Len(lcp))
        original_node == Node(peel_self.suffix, copy(self.positions), self.left, self.right)
        new_leaf == Node(peel_seq.suffix, bv_new, <<>>, <<>>)
        positions == bv_insert(from_elem(Len(self.positions), peel_self.bit), index, peel_seq.bit)
    IN [node |-> IF peel_self.bit
                 THEN Node(lcp, positions.bits, <<new_leaf>>, <<original_node>>)
                 ELSE Node(lcp, positions.bits, <<original_node>>, <<new_leaf>>),
        res |-> IF positions.panic THEN "Panic" ELSE "Ok"]

\* a mutation: the new leaf is not hung under the node
split_lonely(self, sequence, index) ==
    LET lcp == longest_common_prefix(sequence, self.prefix)
        peel_self == different_suffix(self.prefix, Len(lcp))
        peel_seq == different_suffix(sequence, Len(lcp))
        original_node == Node(peel_self.suffix, copy(self.positions), self.left, self.right)
        positions == bv_insert(from_elem(Len(self.positions), peel_self.bit), index, peel_seq.bit)
    IN [node |-> IF peel_self.bit
                 THEN Node(lcp, positions.bits, <<>>, <<original_node>>)
                 ELSE Node(lcp, positions.bits, <<original_node>>, <<>>),
        res |-> IF positions.panic THEN "Panic" ELSE "Ok"]

\* a mutation: the new occurrence's bit is pushed at the end, not put at index
split_push(self, sequence, index) ==
    LET lcp == longest_common_prefix(sequence, self.prefix)
        peel_self == different_suffix(self.prefix, Len(lcp))
        peel_seq == different_suffix(sequence, Len(lcp))
        original_node == Node(peel_self.suffix, copy(self.positions), self.left, self.right)
        new_leaf == Node(peel_seq.suffix, from_elem(1, FALSE), <<>>, <<>>)
        positions == push(from_elem(Len(self.positions), peel_self.bit), peel_seq.bit)
    IN [node |-> IF peel_self.bit
                 THEN Node(lcp, positions, <<new_leaf>>, <<original_node>>)
                 ELSE Node(lcp, positions, <<original_node>>, <<new_leaf>>),
        res |-> "Ok"]

\* the last branch of insert: split the node at the first differing bit
split(self, sequence, index) ==
    LET lcp == longest_common_prefix(sequence, self.prefix)
        peel_self == different_suffix(self.prefix, Len(lcp))
        peel_seq == different_suffix(sequence, Len(lcp))
        original_node == Node(peel_self.suffix, copy(self.positions), self.left, self.right)
        new_leaf == Node(peel_seq.suffix, from_elem(1, FALSE), <<>>, <<>>)
        pos_len == Len(self.positions)
        positions == bv_insert(from_elem(pos_len, peel_self.bit), index, peel_seq.bit)
    IN IF peel_self.panic \/ peel_seq.panic THEN [node |-> self, res |-> "Panic"]
       ELSE [node |-> IF peel_self.bit
                      THEN Node(lcp, positions.bits, <<new_leaf>>, <<original_node>>)
                      ELSE Node(lcp, positions.bits, <<original_node>>, <<new_leaf>>),
             res |-> IF positions.panic THEN "Panic" ELSE "Ok"]

RECURSIVE insert(_, _, _)
RECURSIVE insert_to_child(_, _, _)

\* the bit goes into self.positions before the child is asked, and stays there
\* whatever the child answers
insert_to_child(self, sequence, index) ==
    LET peel == different_suffix(sequence, Len(self.prefix))
        positions == bv_insert(self.positions, index, peel.bit)
        grown == [self EXCEPT !.positions = positions.bits]
        new_pos == bv_rank(positions.bits, peel.bit, index)
        child == IF peel.bit THEN self.right ELSE self.left
    IN IF peel.panic THEN [node |-> self, res |-> "Panic"]
       ELSE IF positions.panic THEN [node |-> grown, res |-> "Panic"]
       ELSE IF child = <<>>
            THEN [node |-> grown, res |-> IF peel.bit THEN "ErrRight" ELSE "ErrLeft"]
       ELSE IF new_pos.panic THEN [node |-> grown, res |-> "Panic"]
       ELSE LET r == insert(child[1], peel.suffix, new_pos.val)
            IN [node |-> IF peel.bit
                         THEN [grown EXCEPT !.right = <<r.node>>]
                         ELSE [grown EXCEPT !.left = <<r.node>>],
                res |-> r.res]

insert(self, sequence, index) ==
    IF is_empty(self.prefix)
    THEN IF self.left = <<>>
         THEN [node |-> [self EXCEPT !.prefix = copy(sequence),
                                     !.positions = push(self.positions, FALSE)],
               res |-> "Ok"]
         ELSE IF is_empty(sequence)
              THEN [node |-> self, res |-> "Err1"]
              ELSE insert_to_child(self, sequence, index)
    ELSE IF is_empty(sequence) THEN [node |-> self, res |-> "Err5"]
    ELSE IF self.prefix = sequence
         THEN IF self.left = <<>>
              THEN LET positions == bv_insert(self.positions, index, FALSE)
                   IN [node |-> [self EXCEPT !.positions = positions.bits],
                       res |-> IF positions.panic THEN "Panic" ELSE "Ok"]
              ELSE [node |-> self, res |-> "Err2"]
    ELSE IF is_prefix_of(sequence, self.prefix) THEN [node |-> self, res |-> "Err3"]
    ELSE IF is_prefix_of(self.prefix, sequence)
         THEN IF self.left = <<>>
              THEN [node |-> self, res |-> "Err4"]
              ELSE insert_to_child(self, sequence, index)
    ELSE split(self, sequence, index)

append(self, sequence) == insert(self, sequence, bv_len(self.positions))

\* the answers of rank: Some(val), None, or a panic (of rank_one)
Some(n) == [kind |-> "Some", val |-> n]
None == [kind |-> "None", val |-> 0]
Panic == [kind |-> "Panic", val |-> 0]

RECURSIVE rank(_, _, _)
rank(self, sequence, index) ==
    IF is_empty(sequence) \/ sequence = self.prefix THEN Some(index)
    ELSE IF Len(sequence) < Len(self.prefix)
         THEN IF is_prefix_of(sequence, self.prefix) THEN Some(index) ELSE None
    ELSE IF ~is_prefix_of(self.prefix, sequence) THEN None
    ELSE LET peel == different_suffix(sequence, Len(self.prefix))
             new_index == bv_rank(self.positions, peel.bit, index)
             child == IF peel.bit THEN self.right ELSE self.left
         IN IF peel.panic \/ new_index.panic THEN Panic
            ELSE IF child = <<>> THEN Some(new_index.val)
            ELSE rank(child[1], peel.suffix, new_index.val)

\* ------------------------------------------------------------ trie calls
IsPrefix(a, b) == Len(a) <= Len(b) /\ SubSeq(b, 1, Len(a)) = a
IsStrictPrefix(a, b) == Len(a) < Len(b) /\ IsPrefix(a, b)

\* s and some sequence of the list are in prefix conflict
Conflict(s, L) ==
    \E k \in 1..Len(L) : IsStrictPrefix(s, L[k]) \/ IsStrictPrefix(L[k], s)

PrefixFree(L) == \A k \in 1..Len(L) : ~Conflict(L[k], L)

\* the list with s put at index idx (0-based), and with index idx taken out. An
\* index past the end of the list (the root can count more occurrences than
\* were accepted once a rejected call has left its bit behind) means the end
InsertAt(L, idx, s) ==
    LET at == IF idx > Len(L) THEN Len(L) ELSE idx
    IN SubSeq(L, 1, at) \o <<s>> \o SubSeq(L, at + 1, Len(L))
RemoveAt(L, idx) ==
    LET at == IF idx >= Len(L) THEN Len(L) - 1 ELSE idx
    IN SubSeq(L, 1, at) \o SubSeq(L, at + 2, Len(L))

RECURSIVE Lists(_, _)
\* the lists of at most n elements of S
Lists(S, n) ==
    IF n = 0 THEN {<<>>}
    ELSE LET shorter == Lists(S, n - 1)
         IN shorter \cup {Append(l, s) : l \in {m \in shorter : Len(m) = n - 1}, s \in S}

\* the sequences handed to the trie, and the lists handed to from_sequences
Inputs == BitStrings(MaxLen)
InputLists == Lists(Inputs, MaxOcc)

Call(op, sequence, index, input, r) ==
    [op |-> op, seq |-> sequence, index |-> index, input |-> input,
     res |-> r.res, pre |-> trie]

TrieCall(op, sequence, index, r) ==
    /\ trie' = r.node
    /\ seqs' = IF r.res = "Ok" THEN InsertAt(seqs, index, sequence) ELSE seqs
    /\ okCount' = IF r.res = "Ok" THEN okCount + 1 ELSE okCount
    /\ last' = Call(op, sequence, index, <<>>, r)
    /\ panicked' = (r.res = "Panic")
    /\ UNCHANGED <<origin, bvVars>>

\* calls are made while fewer than MaxOcc were accepted; the root may count
\* one occurrence more than that, left behind by a rejected call
DoInsert ==
    \E sequence \in Inputs, index \in 0..len(trie) :
        /\ ~panicked
        /\ Len(seqs) < MaxOcc /\ len(trie) <= MaxOcc
        /\ TrieCall("insert", sequence, index, insert(trie, sequence, index))

DoAppend ==
    \E sequence \in Inputs :
        /\ ~panicked
        /\ Len(seqs) < MaxOcc /\ len(trie) <= MaxOcc
        /\ TrieCall("append", sequence, len(trie), append(trie, sequence))

\* from_sequences is a constructor: it is the first call or it is not made
FromSequencesCall(sequences) ==
    LET r == from_sequences(sequences)
    IN /\ trie' = r.node
       /\ seqs' = IF r.panic THEN <<>> ELSE sequences
       /\ last' = Call("from_sequences", <<>>, 0, sequences,
                       [res |-> IF r.panic THEN "Panic" ELSE "Ok"])
       /\ panicked' = r.panic
       /\ origin' = "bulk"
       /\ UNCHANGED <<okCount, bvVars>>

DoFromSequences ==
    /\ last.op = "new"
    /\ \E sequences \in InputLists : FromSequencesCall(sequences)

TrieIdle ==
    /\ trie = new
    /\ seqs = <<>>
    /\ okCount = 0
    /\ last = [op |-> "new", seq |-> <<>>, index |-> 0, input |-> <<>>,
               res |-> "Ok", pre |-> new]
    /\ origin = "new"
    /\ panicked = FALSE

\* no read-only call is on record
NoQuery == [op |-> "none", bit |-> FALSE, k |-> 0, other |-> <<>>, out |-> <<>>]

BvIdle ==
    /\ bv = bv_new
    /\ bvLog = <<>>
    /\ bvPanic = FALSE
    /\ bvOut = NoQuery

Init == TrieIdle /\ BvIdle

Next == DoInsert \/ DoAppend \/ DoFromSequences

Spec == Init /\ [][Next]_vars

\* bulk construction alone
SpecBulk == Init /\ [][DoFromSequences]_vars

\* the same calls under the caller's contract: the sequences handed to the
\* trie are pairwise prefix-free
ValidInsert ==
    \E sequence \in Inputs, index \in 0..len(trie) :
        /\ ~panicked
        /\ len(trie) < MaxOcc
        /\ ~Conflict(sequence, seqs)
        /\ TrieCall("insert", sequence, index, insert(trie, sequence, index))

ValidAppend ==
    \E sequence \in Inputs :
        /\ ~panicked
        /\ len(trie) < MaxOcc
        /\ ~Conflict(sequence, seqs)
        /\ TrieCall("append", sequence, len(trie), append(trie, sequence))

ValidFromSequences ==
    /\ last.op = "new"
    /\ \E sequences \in InputLists :
          /\ PrefixFree(sequences)
          /\ FromSequencesCall(sequences)

ValidNext == ValidInsert \/ ValidAppend \/ ValidFromSequences

SpecValid == Init /\ [][ValidNext]_vars

\* ------------------------------------------------------- bit vector calls
\* a read-only call: bv stays, its answer is kept in bvOut
BvQuery(op, bit, k, other, out) ==
    /\ ~bvPanic
    /\ bvOut' = [op |-> op, bit |-> bit, k |-> k, other |-> other, out |-> out]
    /\ bvLog' = <<>>
    /\ UNCHANGED <<bv, bvPanic, trieVars>>

BvCall(op, i, bit, r) ==
    /\ ~bvPanic
    /\ bv' = r.bits
    /\ bvPanic' = r.panic
    /\ bvLog' = LET e == [op |-> op, i |-> i, bit |-> bit, pre |-> bv,
                          post |-> r.bits, panic |-> r.panic]
                    l == Append(bvLog, e)
                IN IF Len(l) > 2 THEN Tail(l) ELSE l
    /\ bvOut' = NoQuery
    /\ UNCHANGED trieVars

BvInsert ==
    \E i \in 0..(Len(bv) + 1), b \in Bit :
        /\ Len(bv) < MaxBits
        /\ BvCall("insert", i, b, bv_insert(bv, i, b))

BvDelete ==
    \E i \in 0..(Len(bv) + 1) : BvCall("delete", i, FALSE, bv_delete(bv, i))

BvPush ==
    \E b \in Bit :
        /\ Len(bv) < MaxBits
        /\ BvCall("push", Len(bv), b, [bits |-> push(bv, b), panic |-> FALSE])

BvPop == BvCall("pop", 0, FALSE, [bits |-> pop(bv), panic |-> FALSE])

BvSet ==
    \E i \in 0..Len(bv), b \in Bit : BvCall("set", i, b, bv_set(bv, i, b))

BvSelect ==
    \E b \in Bit, k \in 1..(MaxBits + 1) : BvQuery("select", b, k, <<>>, select(bv, b, k))

BvLongestCommonPrefix ==
    \E other \in BitStrings(MaxBits) :
        BvQuery("longest_common_prefix", FALSE, 0, other, longest_common_prefix(bv, other))

BvInit ==
    /\ bv \in BitStrings(MaxBits)
    /\ bvLog = <<>>
    /\ bvPanic = FALSE
    /\ bvOut = NoQuery
    /\ TrieIdle

BvNext ==
    \/ BvInsert \/ BvDelete \/ BvPush \/ BvPop \/ BvSet
    \/ BvSelect \/ BvLongestCommonPrefix

SpecBV == BvInit /\ [][BvNext]_vars

\* ----------------------------------------------------------------- claims
IsInsertCall == last.op \in {"insert", "append"}

\* the logical list before the last insert/append call
PreSeqs == IF last.res = "Ok" THEN RemoveAt(seqs, last.index) ELSE seqs

\* the occurrences of s among the first i of L
Count(L, s, i) == Cardinality({k \in 1..i : L[k] = s})

\* the trie was built by insert/append calls on WaveletTrie::new() alone
Incremental == origin = "new"

\* C1: after any history of inserts of pairwise prefix-free sequences at valid
\* indices on a new trie, every call returned Ok and, for every sequence s of
\* the logical list and every 0 <= i <= len(), rank(s, i) is Some(the number
\* of occurrences of s among the first i); and at every position p holding s,
\* rank(s, p+1) - rank(s, p) = 1.
C1_RankCorrect ==
    Incremental =>
        /\ last.res = "Ok"
        /\ len(trie) = Len(seqs)
        /\ \A p \in 1..Len(seqs) :
              /\ \A i \in 0..len(trie) :
                    rank(trie, seqs[p], i) = Some(Count(seqs, seqs[p], i))
              /\ rank(trie, seqs[p], p).val - rank(trie, seqs[p], p - 1).val = 1

\* three occurrences, one sequence twice, the last one inserted at the front
\* of an internal root
C1_Witness ==
    /\ Incremental
    /\ Len(seqs) = 3
    /\ last.op = "insert" /\ last.index = 0
    /\ trie.left # <<>>
    /\ \E j, k \in 1..3 : j < k /\ seqs[j] = seqs[k]
    /\ \E j, k \in 1..3 : seqs[j] # seqs[k]

\* C2: an insert/append of a sequence in prefix conflict with a sequence
\* accepted before (either one a strict prefix of the other) returns a
\* prefix-conflict Err.
C2_ConflictRejected ==
    (IsInsertCall /\ Conflict(last.seq, PreSeqs)) => last.res \in PrefixErrs

\* C3: an insert/append that returns Err leaves the whole trie as it was.
C3_RejectedChangesNothing ==
    (IsInsertCall /\ last.res \in Errs) => trie = last.pre

\* C4: a trie built by inserts/appends of pairwise prefix-free sequences is
\* node for node the trie from_sequences builds from the logical list.
C4_BulkEqualsIncremental ==
    Incremental =>
        LET bulk == from_sequences(seqs)
        IN ~bulk.panic /\ bulk.node = trie

\* three distinct sequences, the last inserted at the front, below an internal
\* child of the root
C4_Witness ==
    /\ Incremental
    /\ Len(seqs) = 3
    /\ last.op = "insert" /\ last.index = 0 /\ last.res = "Ok"
    /\ trie.left # <<>>
    /\ trie.left[1].left # <<>>

\* C5: in a trie holding pairwise prefix-free sequences (from from_sequences
\* or from valid inserts), for every q that is a prefix of a stored sequence
\* and every 0 <= i <= len(), rank(q, i) is Some(the number of the first i
\* entries that have q as a prefix).
C5_PrefixRank ==
    \A q \in Inputs :
        LET holders == {k \in 1..Len(seqs) : IsPrefix(q, seqs[k])}
        IN holders # {} =>
               \A i \in 0..len(trie) :
                   rank(trie, q, i) = Some(Cardinality({k \in holders : k <= i}))

\* a bulk-built trie then grown by an insert, where the prefix 0 is shared by
\* two different sequences and a third does not have it
C5_Witness ==
    /\ origin = "bulk" /\ IsInsertCall /\ last.res = "Ok"
    /\ Len(seqs) = 3
    /\ \E j, k \in 1..3 :
          /\ seqs[j] # seqs[k]
          /\ IsStrictPrefix(<<FALSE>>, seqs[j])
          /\ IsStrictPrefix(<<FALSE>>, seqs[k])
    /\ \E j \in 1..3 : ~IsPrefix(<<FALSE>>, seqs[j])

\* C6: for every non-empty q that is neither equal to nor a prefix of any
\* stored sequence, rank(q, i) is None for every 0 <= i <= len().
C6_AbsentIsNone ==
    ~panicked =>
        \A q \in BitStrings(MaxLen + 1) \ {<<>>} :
            (\A k \in 1..Len(seqs) : ~IsPrefix(q, seqs[k])) =>
                \A i \in 0..len(trie) : rank(trie, q, i) = None

\* C7: len() of the root is the number of insert/append calls that returned
\* Ok, and from_sequences(L).len() is the number of sequences of L.
C7_LenIsOkCount ==
    ~panicked =>
        /\ origin = "new" => len(trie) = okCount
        /\ last.op = "from_sequences" => len(trie) = Len(last.input)

\* the last call on bv, and the one before it
BvLast == bvLog[Len(bvLog)]
BvBefore == bvLog[Len(bvLog) - 1]

\* C8: delete(i) with i >= len panics and leaves the vector as it was.
C8_DeleteOutOfRangePanics ==
    (bvLog # <<>> /\ BvLast.op = "delete" /\ BvLast.i >= Len(BvLast.pre)) =>
        BvLast.panic /\ BvLast.post = BvLast.pre

\* C9: after insert(i, b) with 0 <= i <= len the vector is one bit longer,
\* get(i) = b, the bits below i are unchanged and every bit formerly at
\* j >= i is at j + 1.
C9_InsertShifts ==
    (bvLog # <<>> /\ BvLast.op = "insert" /\ BvLast.i <= Len(BvLast.pre)) =>
        LET v == BvLast.pre
            w == BvLast.post
            i == BvLast.i
        IN /\ ~BvLast.panic
           /\ w = bv
           /\ bv_len(w) = bv_len(v) + 1
           /\ bv_get(w, i) = <<BvLast.bit>>
           /\ \A j \in 0..(Len(v) - 1) :
                 bv_get(w, IF j < i THEN j ELSE j + 1) = bv_get(v, j)

\* an insert strictly inside a vector whose bits around i differ from the
\* inserted bit
C9_Witness ==
    /\ bvLog # <<>> /\ BvLast.op = "insert" /\ ~BvLast.panic
    /\ BvLast.i > 0 /\ BvLast.i + 1 < Len(BvLast.pre)
    /\ \E j \in 1..Len(BvLast.pre) : BvLast.pre[j] # BvLast.bit
    /\ \E j, k \in 1..Len(BvLast.pre) : BvLast.pre[j] # BvLast.pre[k]

\* C10: insert(i, b) with 0 <= i <= len and then delete(i) gives back the
\* original vector.
C10_InsertDeleteRoundTrip ==
    (/\ Len(bvLog) >= 2
     /\ BvBefore.op = "insert" /\ BvBefore.i <= Len(BvBefore.pre)
     /\ BvLast.op = "delete" /\ BvLast.i = BvBefore.i) =>
        /\ ~BvLast.panic
        /\ BvLast.pre = BvBefore.post
        /\ bv = BvBefore.pre

\* the round trip strictly inside a vector that is not constant
C10_Witness ==
    /\ Len(bvLog) >= 2
    /\ BvBefore.op = "insert" /\ BvLast.op = "delete" /\ BvLast.i = BvBefore.i
    /\ BvLast.i > 0 /\ BvLast.i < Len(BvBefore.pre)
    /\ \E j, k \in 1..Len(BvBefore.pre) : BvBefore.pre[j] # BvBefore.pre[k]
    /\ ~bvPanic

\* the number of bits of v equal to b
Occurrences(v, b) == Cardinality({j \in 1..Len(v) : v[j] = b})

\* C11: for every bit b and k >= 1, select(b, k) is Some(p) exactly when the
\* vector holds at least k bits equal to b, and then get(p) = b and
\* rank(b, p) = k - 1; otherwise it is None.
C11_SelectRankInverse ==
    (bvOut.op = "select" /\ bvOut.k >= 1) =>
        IF Occurrences(bv, bvOut.bit) >= bvOut.k
        THEN /\ Len(bvOut.out) = 1
             /\ bv_get(bv, bvOut.out[1]) = <<bvOut.bit>>
             /\ bv_rank(bv, bvOut.bit, bvOut.out[1]) = [val |-> bvOut.k - 1, panic |-> FALSE]
        ELSE bvOut.out = <<>>

\* select finds a second occurrence that is neither the first nor the last
\* bit of a vector holding both bits
C11_Witness ==
    /\ bvOut.op = "select" /\ bvOut.k = 2
    /\ Len(bvOut.out) = 1 /\ bvOut.out[1] > 1 /\ bvOut.out[1] + 1 < Len(bv)
    /\ Occurrences(bv, ~bvOut.bit) >= 1

C18_RankBeforeEqualsAfter ==
    (bvLog # <<>> /\ BvLast.op = "insert" /\ BvLast.i <= Len(BvLast.pre)) =>
        /\ ~BvLast.panic
        /\ \A c \in Bit :
              /\ ~bv_rank(BvLast.pre, c, BvLast.i).panic
              /\ bv_rank(BvLast.post, c, BvLast.i) = bv_rank(BvLast.pre, c, BvLast.i)

\* an insert in front of a bit that differs from the inserted one, with bits of
\* both kinds below it
C18_Witness ==
    /\ bvLog # <<>> /\ BvLast.op = "insert" /\ ~BvLast.panic
    /\ BvLast.i >= 2 /\ BvLast.i < Len(BvLast.pre)
    /\ BvLast.pre[BvLast.i + 1] # BvLast.bit
    /\ BvLast.pre[1] # BvLast.pre[2]
    /\ BvLast.post = bv

\* ------------------------------------------------- the nodes of a trie
Childless(n) == n.left = <<>> /\ n.right = <<>>

RECURSIVE Nodes(_)
\* the node and all nodes below it
Nodes(n) ==
    {n} \cup (IF n.left = <<>> THEN {} ELSE Nodes(n.left[1]))
        \cup (IF n.right = <<>> THEN {} ELSE Nodes(n.right[1]))

RECURSIVE LeafPaths(_)
\* the childless nodes below n, each named by the bits that lead to it
LeafPaths(n) ==
    IF Childless(n) THEN {<<>>}
    ELSE (IF n.left = <<>> THEN {} ELSE {<<FALSE>> \o q : q \in LeafPaths(n.left[1])})
         \cup (IF n.right = <<>> THEN {} ELSE {<<TRUE>> \o q : q \in LeafPaths(n.right[1])})

RECURSIVE NodeAt(_, _)
NodeAt(n, path) ==
    IF path = <<>> THEN n
    ELSE NodeAt((IF path[1] THEN n.right ELSE n.left)[1], Tail(path))

RECURSIVE RoutedTo(_, _, _)
\* the bits of s after each prefix on the way lead from n to the leaf at path
RoutedTo(n, s, path) ==
    IF Childless(n) THEN path = <<>>
    ELSE /\ path # <<>>
         /\ Len(s) > Len(n.prefix)
         /\ s[Len(n.prefix) + 1] = path[1]
         /\ (IF path[1] THEN n.right ELSE n.left) # <<>>
         /\ RoutedTo((IF path[1] THEN n.right ELSE n.left)[1],
                     SubSeq(s, Len(n.prefix) + 2, Len(s)), Tail(path))

RECURSIVE SumLens(_, _)
\* the occurrences counted by the leaves at the paths in P, all together
SumLens(n, P) ==
    IF P = {} THEN 0
    ELSE LET q == CHOOSE x \in P : TRUE
         IN len(NodeAt(n, q)) + SumLens(n, P \ {q})

\* C13: in every state reached by from_sequences/insert/append calls, calls
\* that returned Err included, every node with children has as many zeros in
\* positions as its left child has occurrences and as many ones as its right
\* child has.
C13_RoutingInvariant ==
    ~panicked =>
        \A n \in Nodes(trie) :
            /\ n.left # <<>> =>
                  rank_zero(n.positions, bv_len(n.positions)).val = len(n.left[1])
            /\ n.right # <<>> =>
                  rank_one(n.positions, bv_len(n.positions)).val = len(n.right[1])

\* the three node states
Empty(n) == is_empty(n.prefix) /\ Childless(n) /\ len(n) = 0
Leaf(n) == ~is_empty(n.prefix) /\ Childless(n) /\ len(n) >= 1
Internal(n) == n.left # <<>> /\ n.right # <<>>
\* a leaf whose prefix may be empty
LeafOrBare(n) == Childless(n) /\ len(n) >= 1

\* C14 as stated: every node of every reachable trie is exactly one of Empty,
\* Leaf (non-empty prefix, no children, at least one occurrence) and Internal.
C14_ThreeStates ==
    ~panicked =>
        \A n \in Nodes(trie) :
            Cardinality({k \in 1..3 : <<Empty(n), Leaf(n), Internal(n)>>[k]}) = 1

\* C14, amended: every node of every reachable trie is exactly one of Empty,
\* a childless node with at least one occurrence (its prefix empty or not),
\* and Internal.
C14_ThreeStatesAnyPrefix ==
    ~panicked =>
        \A n \in Nodes(trie) :
            Cardinality({k \in 1..3 : <<Empty(n), LeafOrBare(n), Internal(n)>>[k]}) = 1

\* an insert has gone down to a childless node with an empty prefix that
\* already held an occurrence, and came back Ok
C14_Witness ==
    /\ IsInsertCall /\ last.res = "Ok" /\ ~panicked
    /\ Internal(last.pre)
    /\ \E q \in LeafPaths(last.pre) :
          /\ RoutedTo(last.pre, last.seq, q)
          /\ is_empty(NodeAt(last.pre, q).prefix)
          /\ len(NodeAt(last.pre, q)) >= 1
          /\ q \in LeafPaths(trie)
          /\ len(NodeAt(trie, q)) = len(NodeAt(last.pre, q)) + 1

\* C15: from new(), whatever insert/append calls with 0 <= index <= len()
\* came before and whatever they returned, an insert with 0 <= index <= len()
\* returns Ok or Err and does not panic.
C15_InsertNeverPanics ==
    (IsInsertCall /\ Incremental /\ last.index <= len(last.pre)) => last.res # "Panic"

\* C16: every node of every reachable trie has both children or none, and no
\* insert returns one of the two absent-child errors.
C16_ChildrenInPairs ==
    /\ \A n \in Nodes(trie) : (n.left = <<>>) <=> (n.right = <<>>)
    /\ IsInsertCall => last.res \notin ChildErrs

\* an insert has gone from the root into a child, split it there, and come
\* back Ok
C16_Witness ==
    /\ IsInsertCall /\ last.res = "Ok"
    /\ Internal(last.pre)
    /\ \E q \in LeafPaths(trie) : Len(q) = 2

\* C17: in every reachable trie every childless node has only zeros in
\* positions, and as many of them as occurrences were routed to it: the leaves
\* together count the accepted occurrences, and where the accepted sequences
\* are prefix-free each leaf counts those whose bits lead to it.
C17_LeafCountsOnly ==
    ~panicked =>
        /\ \A q \in LeafPaths(trie) :
              \A j \in 1..len(NodeAt(trie, q)) : NodeAt(trie, q).positions[j] = FALSE
        /\ SumLens(trie, LeafPaths(trie)) = Len(seqs)
        /\ PrefixFree(seqs) =>
              \A q \in LeafPaths(trie) :
                  len(NodeAt(trie, q)) =
                      Cardinality({k \in 1..Len(seqs) : RoutedTo(trie, seqs[k], q)})

\* two leaves under a root that a rejected call has left one bit too long,
\* one of the leaves with two occurrences
C17_Witness ==
    /\ ~panicked /\ PrefixFree(seqs)
    /\ len(trie) > Len(seqs)
    /\ \E q \in LeafPaths(trie) : q # <<>> /\ len(NodeAt(trie, q)) = 2
    /\ Cardinality(LeafPaths(trie)) >= 2

\* C19: from_sequences on a list in which one sequence is a strict prefix of
\* another (the empty sequence next to a non-empty one included) aborts and
\* returns no trie.
C19_BulkRejectsConflict ==
    (last.op = "from_sequences" /\ ~PrefixFree(last.input)) => last.res = "Panic"

\* the conflict is met below the root, between two sequences that part from a
\* third at their first bit
C19_Witness ==
    /\ last.op = "from_sequences" /\ last.res = "Panic"
    /\ Len(last.input) = 3
    /\ \E j, k, m \in 1..3 :
          /\ IsStrictPrefix(last.input[j], last.input[k])
          /\ last.input[j] # <<>>
          /\ last.input[m] # <<>> /\ last.input[m][1] # last.input[j][1]

====
